---- MODULE Spec2Model ----
(***************************************************************************)
(* PUMA interpreter: the interactive session of app.py (main loop), the    *)
(* handler groups it dispatches to and the pandas tables they share.       *)
(*                                                                         *)
(* A pandas DataFrame is a mutable object: several attributes may refer to *)
(* the same object (an in-place write is seen through all of them) or to   *)
(* different objects.  The model keeps a heap of table objects and one     *)
(* reference per attribute.                                                *)
(***************************************************************************)
EXTENDS Integers, Sequences, FiniteSets, TLC

\* ------------------------------------------------------------------ bounds
MaxSteps == 3       \* statements typed in one session
MaxRosa == 2        \* largest accepted Rosa count that is explored
MaxIter == 2        \* largest number of Football loop iterations explored
NumObj == 5         \* table objects that can be alive at once
MaxCols == 3        \* widest table explored
MaxVal == 40        \* largest cell value explored
MaxRows == 2        \* longest table a handler is constructed on
MaxCalls == 2       \* calls made on one handler object
MaxWide == 4        \* widest table a chaos batch is followed to
MaxTall == 4        \* longest table a chaos batch is followed to
MaxBatches == 2     \* statements typed to the chaos handler on its own
MaxLag == 1         \* half seconds a turn of football's loop may take beyond its pause

\* ------------------------------------------------------- program constants
Cabra == -1         \* the marker value "cabra" written by the chaos mutations
TopN == 10          \* Petacereza keeps min(10, len) rows
RosaConfirm == 100  \* counts above it need a confirmation

None == 0           \* Python's None as a reference
ObjIds == 1..NumObj

\* ------------------------------------------------------------------ tables
\* cols: column labels in order (pandas allows duplicates), num: per column
\* whether its dtype is numeric, idx: row labels, rows: the cells by row.
EmptyTable == [cols |-> <<>>, num |-> <<>>, idx |-> <<>>, rows |-> <<>>]

NRows(t) == Len(t.idx)
NCols(t) == Len(t.cols)
ColPos(t, c) == {i \in 1..NCols(t) : t.cols[i] = c}
HasCol(t, c) == ColPos(t, c) # {}
PosOf(t, c) == CHOOSE i \in ColPos(t, c) : \A j \in ColPos(t, c) : i <= j
Column(t, c) == [r \in 1..NRows(t) |-> t.rows[r][PosOf(t, c)]]
RangeIdx(n) == [i \in 1..n |-> i - 1]
ColumnsDistinct(t) == \A i, j \in 1..NCols(t) : t.cols[i] = t.cols[j] => i = j

\* pd.api.types.is_numeric_dtype(df[col]): df[col] is a Series only when the
\* label is unique; for a duplicated label it is a DataFrame, which has no
\* dtype, and the test is False.
IsNumeric(t, c) == Cardinality(ColPos(t, c)) = 1 /\ t.num[PosOf(t, c)]

\* df[name] = values : overwrite the column when the label exists, append
\* it otherwise.
SetColumn(t, c, vals, isnum) ==
    IF HasCol(t, c)
    THEN [t EXCEPT !.num = [i \in 1..NCols(t) |-> IF i \in ColPos(t, c) THEN isnum ELSE t.num[i]],
                   !.rows = [r \in 1..NRows(t) |->
                               [i \in 1..NCols(t) |-> IF i \in ColPos(t, c) THEN vals[r] ELSE t.rows[r][i]]]]
    ELSE [t EXCEPT !.cols = Append(t.cols, c),
                   !.num = Append(t.num, isnum),
                   !.rows = [r \in 1..NRows(t) |-> Append(t.rows[r], vals[r])]]

\* An object column holding a "cabra" string cannot be added to a number.
Addable(t, c) == Cardinality(ColPos(t, c)) = 1 /\ \A r \in 1..NRows(t) : Column(t, c)[r] # Cabra

SumName(c1, c2) == c1 \o "_mas_" \o c2
SquareName(c) == c \o "_cuadrado"

\* ------------------------------------------------------- transform actions
\* An action node of the command tree.
NoAct == [op |-> "none", c1 |-> "", c2 |-> ""]
Act(op, c1, c2) == [op |-> op, c1 |-> c1, c2 |-> c2]

\* The state a transform handler works on: the heap, the handler's df
\* reference, its modified flag, the exception raised so far ("" = none),
\* the number of handler calls made and whether df was rebound.
\* live: the references held elsewhere, which a new object must not reuse.
NewObj(h, live) == CHOOSE o \in ObjIds : o \notin (live \cup {h.df}) /\
                      \A p \in ObjIds : p \notin (live \cup {h.df}) => o <= p
Raise(h, e) == [h EXCEPT !.exc = e, !.calls = h.calls + 1]
InPlace(h, t) == [h EXCEPT !.heap[h.df] = t, !.mod = TRUE, !.calls = h.calls + 1]
Rebind(h, t, live) == LET o == NewObj(h, live) IN
    [h EXCEPT !.heap[o] = t, !.df = o, !.mod = TRUE, !.calls = h.calls + 1, !.rebound = TRUE]

\* MacetaValues as a plain overwrite of the derived column (no accumulation).
MacetaValuesOverwrite(t, c1, c2) ==
    [r \in 1..NRows(t) |-> Column(t, c1)[r] + Column(t, c2)[r]]

MacetaValues(t, c1, c2) ==
    LET new == SumName(c1, c2) IN
    [r \in 1..NRows(t) |->
        IF HasCol(t, new) THEN Column(t, new)[r] + Column(t, c1)[r] + Column(t, c2)[r]
        ELSE Column(t, c1)[r] + Column(t, c2)[r]]

maceta(h, c1, c2, live) ==
    LET t == h.heap[h.df]
        new == SumName(c1, c2) IN
    IF ~HasCol(t, c1) \/ ~HasCol(t, c2) THEN Raise(h, "ColumnNotFound")
    ELSE IF ~IsNumeric(t, c1) \/ ~IsNumeric(t, c2) THEN Raise(h, "NonNumeric")
    ELSE IF HasCol(t, new) /\ ~Addable(t, new) THEN Raise(h, "TypeError")
    ELSE InPlace(h, SetColumn(t, new, MacetaValues(t, c1, c2),
                              IF HasCol(t, new) THEN t.num[PosOf(t, new)] ELSE TRUE))

HipnosetaValues(t, c) ==
    LET new == SquareName(c) IN
    [r \in 1..NRows(t) |->
        IF HasCol(t, new) THEN Column(t, new)[r] + Column(t, c)[r] * Column(t, c)[r]
        ELSE Column(t, c)[r] * Column(t, c)[r]]

\* hipnoseta setting modified before its numeric check.
hipnosetaFlagFirst(h, c, live) ==
    LET t == h.heap[h.df]
        new == SquareName(c) IN
    IF ~HasCol(t, c) THEN Raise(h, "ColumnNotFound")
    ELSE IF ~IsNumeric(t, c) THEN Raise([h EXCEPT !.mod = TRUE], "NonNumeric")
    ELSE IF HasCol(t, new) /\ ~Addable(t, new) THEN Raise(h, "TypeError")
    ELSE InPlace(h, SetColumn(t, new, HipnosetaValues(t, c),
                              IF HasCol(t, new) THEN t.num[PosOf(t, new)] ELSE TRUE))

hipnoseta(h, c, live) ==
    LET t == h.heap[h.df]
        new == SquareName(c) IN
    IF ~HasCol(t, c) THEN Raise(h, "ColumnNotFound")
    ELSE IF ~IsNumeric(t, c) THEN Raise(h, "NonNumeric")
    ELSE IF HasCol(t, new) /\ ~Addable(t, new) THEN Raise(h, "TypeError")
    ELSE InPlace(h, SetColumn(t, new, HipnosetaValues(t, c),
                              IF HasCol(t, new) THEN t.num[PosOf(t, new)] ELSE TRUE))

\* DataFrame.nlargest(n, col): the n rows with the largest values of col, in
\* descending order, ties in order of appearance; the row labels are kept.
\* Rank with the later of two equal values first.
RankLaterFirst(t, c, i) == 1 + Cardinality({j \in 1..NRows(t) :
                     \/ Column(t, c)[j] > Column(t, c)[i]
                     \/ (Column(t, c)[j] = Column(t, c)[i] /\ j > i)})
Rank(t, c, i) == 1 + Cardinality({j \in 1..NRows(t) :
                     \/ Column(t, c)[j] > Column(t, c)[i]
                     \/ (Column(t, c)[j] = Column(t, c)[i] /\ j < i)})
\* (SubSeq(s, 1, n) is s itself for a sequence of length n, worked out once.)
NLargest(t, n, c) ==
    LET at(k) == CHOOSE i \in 1..NRows(t) : Rank(t, c, i) = k
        order == SubSeq([k \in 1..n |-> at(k)], 1, n) IN
    [t EXCEPT !.idx = SubSeq([k \in 1..n |-> t.idx[order[k]]], 1, n),
              !.rows = SubSeq([k \in 1..n |-> t.rows[order[k]]], 1, n)]
Min(a, b) == IF a <= b THEN a ELSE b

petacereza(h, c, live) ==
    LET t == h.heap[h.df] IN
    IF ~HasCol(t, c) THEN Raise(h, "ColumnNotFound")
    ELSE IF ~IsNumeric(t, c) THEN Raise(h, "NonNumeric")
    ELSE IF NRows(t) = 0 THEN Raise(h, "EmptyTable")
    ELSE Rebind(h, NLargest(t, Min(TopN, NRows(t)), c), live)

\* The positions of a table kept in the given order.
RECURSIVE Keep(_, _)
Keep(s, keep) == IF s = <<>> THEN <<>>
                 ELSE IF keep[1] THEN <<s[1]>> \o Keep(Tail(s), Tail(keep))
                 ELSE Keep(Tail(s), Tail(keep))
\* DropColumn dropping the last column whatever the label.
DropColumnLast(t, c) ==
    LET keep == [i \in 1..NCols(t) |-> i # NCols(t)] IN
    [t EXCEPT !.cols = Keep(t.cols, keep), !.num = Keep(t.num, keep),
              !.rows = [r \in 1..NRows(t) |-> Keep(t.rows[r], keep)]]

\* DataFrame.drop(columns=[c]) drops every column carrying the label.
DropColumn(t, c) ==
    LET keep == [i \in 1..NCols(t) |-> t.cols[i] # c] IN
    [t EXCEPT !.cols = Keep(t.cols, keep), !.num = Keep(t.num, keep),
              !.rows = [r \in 1..NRows(t) |-> Keep(t.rows[r], keep)]]

\* jalapeno without the only-column check of lines 141-142.
jalapeno_unchecked(h, c, live) ==
    LET t == h.heap[h.df] IN
    IF ~HasCol(t, c) THEN Raise(h, "ColumnNotFound")
    ELSE Rebind(h, DropColumn(t, c), live)

jalapeno(h, c, live) ==
    LET t == h.heap[h.df] IN
    IF ~HasCol(t, c) THEN Raise(h, "ColumnNotFound")
    ELSE IF NCols(t) = 1 THEN Raise(h, "OnlyColumn")
    ELSE Rebind(h, DropColumn(t, c), live)

\* Lark's Transformer visits the children of a node before the node: an
\* action is evaluated by its own callback; once a callback has raised no
\* further callback runs.
EvalAction(h, a, live) ==
    IF h.exc # "" THEN h
    ELSE CASE a.op = "Maceta" -> maceta(h, a.c1, a.c2, live)
           [] a.op = "Hipnoseta" -> hipnoseta(h, a.c1, live)
           [] a.op = "Petacereza" -> petacereza(h, a.c1, live)
           [] a.op = "Jalapeno" -> jalapeno(h, a.c1, live)
           [] OTHER -> h


\* ------------------------------------------------------------ chaos (Rosa)
\* The mutations of comando_especial.DataFrameInterpreter on a table.  The
\* in-place ones write into the object self.df refers to; the others bind
\* self.df to a new object (see the Rosa* actions).
SetCell(t, r, c) ==
    [t EXCEPT !.num = [i \in 1..NCols(t) |-> IF i \in ColPos(t, c) THEN FALSE ELSE t.num[i]],
              !.rows[r] = [i \in 1..NCols(t) |-> IF i \in ColPos(t, c) THEN Cabra ELSE t.rows[r][i]]]
\* The position of the row labelled lbl (the table's labels are unique).
RowOf(t, lbl) == CHOOSE r \in 1..NRows(t) : t.idx[r] = lbl
HasRow(t, lbl) == \E r \in 1..NRows(t) : t.idx[r] = lbl
\* rename(columns=new_names, inplace=True); new_names maps each label.
RenameColumns(t, names) == [t EXCEPT !.cols = [i \in 1..NCols(t) |-> names[t.cols[i]]]]
\* sample(frac=1).reset_index(drop=True): the rows in the order perm.
Shuffled(t, perm) == [t EXCEPT !.idx = RangeIdx(NRows(t)),
                               !.rows = [k \in 1..NRows(t) |-> t.rows[perm[k]]]]
\* drop(lbl).reset_index(drop=True)
WithoutRow(t, lbl) ==
    LET keep == [r \in 1..NRows(t) |-> t.idx[r] # lbl] IN
    [t EXCEPT !.idx = RangeIdx(Len(Keep(t.idx, keep))), !.rows = Keep(t.rows, keep)]
\* pd.concat([df, df.iloc[p:p+1]], ignore_index=True), p a position from 0.
WithRowTwice(t, p) == [t EXCEPT !.idx = RangeIdx(NRows(t) + 1),
                                !.rows = Append(t.rows, t.rows[p + 1])]
\* df[labels]: for each label in turn, every column that carries it.
RECURSIVE PositionsOf(_, _)
PositionsOf(t, labels) ==
    IF labels = <<>> THEN <<>>
    ELSE Keep([i \in 1..NCols(t) |-> i], [i \in 1..NCols(t) |-> t.cols[i] = labels[1]])
         \o PositionsOf(t, Tail(labels))
Reverse(s) == [i \in 1..Len(s) |-> s[Len(s) + 1 - i]]
ColumnsReversed(t) ==
    LET ps == PositionsOf(t, Reverse(t.cols)) IN
    [t EXCEPT !.cols = [k \in 1..Len(ps) |-> t.cols[ps[k]]],
              !.num = [k \in 1..Len(ps) |-> t.num[ps[k]]],
              !.rows = [r \in 1..NRows(t) |-> [k \in 1..Len(ps) |-> t.rows[r][ps[k]]]]]
AllCabra(t) == [t EXCEPT !.num = [i \in 1..NCols(t) |-> FALSE],
                         !.rows = [r \in 1..NRows(t) |-> [i \in 1..NCols(t) |-> Cabra]]]
Perms(n) == {p \in [1..n -> 1..n] : \A i, j \in 1..n : p[i] = p[j] => i = j}

\* ------------------------------------------------------------------- files
\* What pd.read_csv can return for the paths a Sol statement names.
FileTable(f) ==
    CASE f = "xy.csv" -> [cols |-> <<"x", "y">>, num |-> <<TRUE, TRUE>>, idx |-> RangeIdx(2),
                          rows |-> <<<<1, 3>>, <<2, 4>>>>]
      [] f = "x.csv" -> [cols |-> <<"x">>, num |-> <<TRUE>>, idx |-> RangeIdx(2), rows |-> <<<<2>>, <<1>>>>]
      [] f = "head.csv" -> [cols |-> <<"x">>, num |-> <<FALSE>>, idx |-> <<>>, rows |-> <<>>]
Files == {"xy.csv", "x.csv", "head.csv"}
\* Paths on which _sol returns an error value.
BadPaths == {"missing.csv"}
\* Paths a statement of the file handler's own session may name: the empty
\* string, one without the .csv extension, and files that exist but cannot
\* be read as a table.
CsvPaths == Files \cup BadPaths \cup {"empty.csv", "broken.csv", "locked.csv"}
Paths == CsvPaths \cup {"", "datos.txt"}
\* What pd.read_csv does on an existing .csv path.
ReadCsv(path) ==
    IF path \in Files THEN "ok"
    ELSE IF path = "empty.csv" THEN "EmptyDataError"
    ELSE IF path = "broken.csv" THEN "ParserError"
    ELSE "PermissionError"
\* What to_csv, to_json and to_excel can do.
WriteOutcomes == {"ok", "PermissionError", "OSError", "ImportError"}
\* An operand the statement leaves out.
Omitted == "-"
\* The names randint(1000, 9999) is drawn from, cut to a few.
RenameNames == {"col_1000", "col_1001"}

\* ----------------------------------------------------------------- session
VARIABLES
    heap,             \* the DataFrame objects, by identity
    df,               \* main: df
    archivo_cargado,  \* main: archivo_cargado
    aa,               \* interpreter.base_interpreter.archivo_actual
    nombre_archivo,   \* interpreter.base_interpreter.nombre_archivo ("" = None)
    base_cargado,     \* interpreter.base_interpreter.archivo_cargado
    idf,              \* interpreter.df
    fdf,              \* interpreter.filtrado_interpreter.df
    fmod,             \* interpreter.filtrado_interpreter.modified
    edf,              \* interpreter.especial_interpreter.df
    wdf,              \* interpreter.flujo_interpreter.df
    wbdf,             \* interpreter.flujo_interpreter.base_interpreter.df
    pc,               \* "prompt": waiting for a statement, "rosa": inside a batch, "exited";
                      \* football on its own: "while", "body", "returned"
    rounds,           \* rounds a running Rosa batch has still to draw
    steps,            \* statements typed so far
    last,             \* the last statement: its kind and how it ended
    repl,             \* the replacement table the last statement's handler produced
    code,             \* tokenize: code, as its characters
    pos,              \* tokenize: pos
    tokens,           \* tokenize: tokens
    start_time,       \* football: start_time, in half seconds
    clock,            \* time.time(), in half seconds
    count,            \* football: count
    result            \* football: result

vars == <<heap, df, archivo_cargado, aa, nombre_archivo, base_cargado, idf, fdf, fmod,
          edf, wdf, wbdf, pc, rounds, steps, last, repl, code, pos, tokens, start_time,
          clock, count, result>>
\* tokenize and football's loop, looked at on their own further down, are
\* single steps of a statement.
NotLexing == code = <<>> /\ pos = 0 /\ tokens = <<>>
NotLooping == start_time = 0 /\ clock = 0 /\ count = 0 /\ result = None
InOneStep == UNCHANGED <<code, pos, tokens, start_time, clock, count, result>>

NoRepl == [has |-> FALSE, t |-> EmptyTable]
Outcome(kind, out, calls, iters, err, who) ==
    [kind |-> kind, out |-> out, calls |-> calls, iters |-> iters, err |-> err, who |-> who]

\* The references and the heap as one value.
Cur == [heap |-> heap, df |-> df, ac |-> archivo_cargado, aa |-> aa, idf |-> idf,
        fdf |-> fdf, fmod |-> fmod, edf |-> edf, wdf |-> wdf, wbdf |-> wbdf]
Refs(s) == {s.df, s.aa, s.idf, s.fdf, s.edf, s.wdf, s.wbdf} \ {None}
\* Objects nothing refers to are gone.
Install(s) ==
    /\ heap' = [o \in ObjIds |-> IF o \in Refs(s) THEN s.heap[o] ELSE EmptyTable]
    /\ df' = s.df /\ archivo_cargado' = s.ac /\ aa' = s.aa /\ idf' = s.idf
    /\ fdf' = s.fdf /\ fmod' = s.fmod /\ edf' = s.edf /\ wdf' = s.wdf /\ wbdf' = s.wbdf

\* DataFrame.equals: same labels, dtypes and cells.
Equals(t1, t2) == t1 = t2

\* main, after interpreter.transform(tree) has returned.
SyncLoaded(s) ==
    IF s.aa # None
    THEN [s EXCEPT !.df = s.aa, !.idf = s.aa, !.fdf = s.aa, !.edf = s.aa, !.wdf = s.aa,
                   !.wbdf = s.aa, !.ac = TRUE]
    ELSE s
SyncModified(s) == IF s.fmod THEN [s EXCEPT !.df = s.fdf, !.aa = s.fdf] ELSE s
SyncEspecial(s) ==
    IF s.df = None \/ ~Equals(s.heap[s.df], s.heap[s.edf])
    THEN [s EXCEPT !.df = s.edf, !.aa = s.edf]
    ELSE s
\* MainSync taking the transform handler's table before archivo_actual.
MainSyncModifiedFirst(s) == SyncEspecial(SyncLoaded(SyncModified(s)))
MainSync(s) == SyncEspecial(SyncModified(SyncLoaded(s)))

Init ==
    /\ heap = [o \in ObjIds |-> EmptyTable]
    /\ df = None /\ archivo_cargado = FALSE
    /\ aa = None /\ nombre_archivo = "" /\ base_cargado = FALSE
    /\ idf = 1 /\ fdf = 1 /\ fmod = FALSE /\ edf = 1 /\ wdf = 1 /\ wbdf = 1
    /\ pc = "prompt" /\ rounds = 0 /\ steps = 0
    /\ last = Outcome("none", "none", 0, 0, "", "")
    /\ repl = NoRepl
    /\ NotLexing /\ NotLooping

\* A statement is read at the prompt.
Prompt == pc = "prompt" /\ steps < MaxSteps
\* main's gate: before a load only Sol... and Zerebros go on to the lexer.
Gate == archivo_cargado
Typed == steps' = steps + 1 /\ InOneStep
BaseSame == UNCHANGED <<nombre_archivo, base_cargado>>

\* The statement returned: main synchronises.  It raised: main reports it
\* and reads the next statement.
Returned(s, kind, calls, iters, rp) ==
    /\ Install(MainSync(s))
    /\ last' = Outcome(kind, "ok", calls, iters, "", "")
    /\ repl' = rp
Raised(s, kind, calls, err, who) ==
    /\ Install(s)
    /\ last' = Outcome(kind, "exc", calls, 0, err, who)
    /\ repl' = NoRepl

Reject ==
    /\ Prompt /\ ~Gate /\ Typed
    /\ \E kind \in {"Maceta", "Hipnoseta", "Petacereza", "Jalapeno", "Football", "Ingeniero",
                    "Zombidito", "Zombistein", "Rosa", "Carnivora", "Papapum", "Magnetoseta",
                    "Melonpulta"} :
          last' = Outcome(kind, "rejected", 0, 0, "", "")
    /\ repl' = NoRepl
    /\ UNCHANGED <<heap, df, archivo_cargado, aa, nombre_archivo, base_cargado, idf, fdf,
                   fmod, edf, wdf, wbdf, pc, rounds>>

\* SyntaxErrorStmt going on to main's synchronisation.
SyntaxErrorStmtSynced ==
    /\ Prompt /\ Typed
    /\ last' = Outcome("Malformed", "syntax", 0, 0, "", "")
    /\ repl' = NoRepl
    /\ Install(MainSync(Cur))
    /\ UNCHANGED <<nombre_archivo, base_cargado, pc, rounds>>

\* A statement that tokenize or parser.parse refuses.
SyntaxErrorStmt ==
    /\ Prompt /\ Typed
    /\ last' = Outcome("Malformed", "syntax", 0, 0, "", "")
    /\ repl' = NoRepl
    /\ UNCHANGED <<heap, df, archivo_cargado, aa, nombre_archivo, base_cargado, idf, fdf,
                   fmod, edf, wdf, wbdf, pc, rounds>>

\* A new object: an identity nothing refers to.
FreeObj(s) == CHOOSE o \in ObjIds : o \notin Refs(s) /\ \A p \in ObjIds : p \notin Refs(s) => o <= p

\* ----------------------------------------------------------- file handler
\* _sol: an error value for a bad path, else the table read replaces
\* archivo_actual.
\* An except clause catches the classes it names; every exception the file
\* operations meet derives from Exception.
Catches(clauses, e) == \E i \in 1..Len(clauses) : clauses[i] = e \/ clauses[i] = "Exception"
\* _sol without its last except clause.
SolClausesNamedOnly == <<"EmptyDataError", "ParserError">>
SolClauses == <<"EmptyDataError", "ParserError", "Exception">>
\* The "tipo" of the value _sol returns, "exito", or "raise".
SolResult(path) ==
    IF path = "" THEN "LEXICO"
    ELSE IF path \notin CsvPaths THEN "SINTACTICO"
    ELSE IF path \notin Files \cup {"datos.txt", "empty.csv", "broken.csv", "locked.csv"}
         THEN "SEMANTICO"
    ELSE IF ReadCsv(path) = "ok" THEN "exito"
    ELSE IF ~Catches(SolClauses, ReadCsv(path)) THEN "raise"
    ELSE IF ReadCsv(path) = "EmptyDataError" THEN "SEMANTICO"
    ELSE IF ReadCsv(path) = "ParserError" THEN "SINTACTICO"
    ELSE "RUNTIME"
sol(s, path) ==
    IF SolResult(path) # "exito" THEN s
    ELSE [s EXCEPT !.heap[FreeObj(s)] = FileTable(path), !.aa = FreeObj(s)]

\* _carnivora: the value it returns for the operand and for what to_csv does.
CarnivoraResult(ruta, w) ==
    IF ~base_cargado \/ aa = None THEN "SEMANTICO"
    ELSE IF ruta = Omitted /\ nombre_archivo = "" THEN "SEMANTICO"
    ELSE IF (IF ruta = Omitted THEN nombre_archivo ELSE ruta) \notin CsvPaths THEN "SINTACTICO"
    ELSE IF w = "ok" THEN "exito"
    ELSE IF ~Catches(<<"PermissionError", "Exception">>, w) THEN "raise"
    ELSE "RUNTIME"

\* _papapum
formatos_validos == {"csv", "json", "excel", "xlsx"}
PapapumResult(ruta, formato, w) ==
    IF ~base_cargado \/ aa = None THEN "SEMANTICO"
    ELSE IF ruta = "" THEN "LEXICO"
    ELSE IF (IF formato = Omitted THEN "csv" ELSE formato) \notin formatos_validos
         THEN "SINTACTICO"
    ELSE IF w = "ok" THEN "exito"
    ELSE IF ~Catches(<<"ImportError", "Exception">>, w) THEN "raise"
    ELSE "RUNTIME"

SolStmt ==
    /\ Prompt /\ Typed
    /\ \E path \in Files \cup BadPaths :
          LET s == sol(Cur, path) IN
          /\ Install(MainSync(s))
          /\ nombre_archivo' = IF SolResult(path) = "exito" THEN path ELSE nombre_archivo
          /\ base_cargado' = IF SolResult(path) = "exito" THEN TRUE ELSE base_cargado
          /\ last' = Outcome("Sol", IF SolResult(path) = "exito" THEN "ok" ELSE "error",
                             0, 0, "", path)
    /\ repl' = NoRepl
    /\ UNCHANGED <<pc, rounds>>

\* Carnivora, Papapum and Magnetoseta read the handler's state and return a
\* value; they change none of it.
FileInfoStmt ==
    /\ Prompt /\ Gate /\ Typed
    /\ \E kind \in {"Carnivora", "Papapum", "Magnetoseta"} :
          last' = Outcome(kind, IF base_cargado /\ aa # None THEN "ok" ELSE "error", 0, 0, "", "")
    /\ Install(MainSync(Cur))
    /\ repl' = NoRepl
    /\ BaseSame
    /\ UNCHANGED <<pc, rounds>>

\* _melonpulta_gelida
MelonpultaStmt ==
    /\ Prompt /\ Gate /\ Typed
    /\ IF base_cargado
       THEN /\ Install(MainSync([Cur EXCEPT !.aa = None]))
            /\ nombre_archivo' = "" /\ base_cargado' = FALSE
       ELSE /\ Install(MainSync(Cur))
            /\ BaseSame
    /\ last' = Outcome("Melonpulta", "ok", 0, 0, "", "")
    /\ repl' = NoRepl
    /\ UNCHANGED <<pc, rounds>>

\* ------------------------------------------------- transform statements
\* The column names a statement may name: the table's own and one more.
Names(t) == {t.cols[i] : i \in 1..NCols(t)} \cup {"nope"}
Actions(t) ==
    {Act("Maceta", c1, c2) : c1 \in Names(t), c2 \in Names(t)}
    \cup {Act(op, c, "") : op \in {"Hipnoseta", "Petacereza", "Jalapeno"}, c \in Names(t)}

H0(s) == [heap |-> s.heap, df |-> s.fdf, mod |-> s.fmod, exc |-> "", calls |-> 0,
          rebound |-> FALSE]
\* Evaluate visiting the second action before the first.
EvaluateReversed(s, a1, a2) == EvalAction(EvalAction(H0(s), a2, Refs(s)), a1, Refs(s))
\* interpreter.transform(tree) for a tree whose actions are a1 and then a2
\* (NoAct when there is none), all dispatched to filtrado_interpreter.
Evaluate(s, a1, a2) == EvalAction(EvalAction(H0(s), a1, Refs(s)), a2, Refs(s))
After(s, h) == [s EXCEPT !.heap = h.heap, !.fdf = h.df, !.fmod = h.mod]
Produced(h) == IF h.rebound THEN [has |-> TRUE, t |-> h.heap[h.df]] ELSE NoRepl

\* The exploration stops at tables wider than MaxCols or with a cell above
\* MaxVal.
Small(t) == /\ NCols(t) <= MaxCols
            /\ \A r \in 1..NRows(t) : \A i \in 1..NCols(t) : t.rows[r][i] <= MaxVal
Explored(hp) == \A o \in ObjIds : Small(hp[o])

Run(kind, a1, a2, iters) ==
    LET h == Evaluate(Cur, a1, a2) IN
    /\ Explored(h.heap)
    /\ IF h.exc # ""
       THEN Raised(After(Cur, h), kind, h.calls, h.exc, "")
       ELSE Returned(After(Cur, h), kind, h.calls, iters, Produced(h))
    /\ BaseSame
    /\ UNCHANGED <<pc, rounds>>

MacetaStmt ==
    /\ Prompt /\ Gate /\ Typed
    /\ \E c1, c2 \in Names(heap[fdf]) : Run("Maceta", Act("Maceta", c1, c2), NoAct, 0)
HipnosetaStmt ==
    /\ Prompt /\ Gate /\ Typed
    /\ \E c \in Names(heap[fdf]) : Run("Hipnoseta", Act("Hipnoseta", c, ""), NoAct, 0)
PetacerezaStmt ==
    /\ Prompt /\ Gate /\ Typed
    /\ \E c \in Names(heap[fdf]) : Run("Petacereza", Act("Petacereza", c, ""), NoAct, 0)
JalapenoStmt ==
    /\ Prompt /\ Gate /\ Typed
    /\ \E c \in Names(heap[fdf]) : Run("Jalapeno", Act("Jalapeno", c, ""), NoAct, 0)

\* ----------------------------------------------- control-flow statements
\* zombistein receives the result of its action, already evaluated, and
\* appends that same result three times.
zombistein(a) == Run("Zombistein", a, NoAct, 3)
ZombisteinStmt ==
    /\ Prompt /\ Gate /\ Typed
    /\ \E a \in Actions(heap[fdf]) : zombistein(a)

\* football receives the result of its action and loops, sleeping, until
\* ten seconds have passed: k iterations, each taking the same result.
football(a, k) == Run("Football", a, NoAct, k)
FootballStmt ==
    /\ Prompt /\ Gate /\ Typed
    /\ \E a \in Actions(heap[fdf]), k \in 1..MaxIter : football(a, k)

\* Ctrl-C while football sleeps, in its k-th iteration: the action has been
\* evaluated, KeyboardInterrupt is no Exception, so neither Lark nor the
\* clauses around interpreter.transform take it, and main's
\* "except KeyboardInterrupt: break" ends the loop, main and the process.
\* AfterInterrupt as if the statement alone were given up.
AfterInterruptContinue == "prompt"
AfterInterrupt == "exited"
FootballInterrupt ==
    /\ Prompt /\ Gate /\ Typed
    /\ \E a \in Actions(heap[fdf]), k \in 1..MaxIter :
          LET h == Evaluate(Cur, a, NoAct) IN
          /\ Explored(h.heap)
          /\ h.exc = ""
          /\ Install(After(Cur, h))
          /\ last' = Outcome("Football", "interrupted", h.calls, k, "", "")
          /\ repl' = NoRepl
    /\ pc' = AfterInterrupt
    /\ BaseSame
    /\ UNCHANGED rounds

\* zombidito receives the results of its two actions, evaluated in order.
zombidito(a1, a2) == Run("Zombidito", a1, a2, 0)
ZombiditoStmt ==
    /\ Prompt /\ Gate /\ Typed
    /\ \E a1 \in Actions(heap[fdf]) :
          LET h1 == Evaluate(Cur, a1, NoAct) IN
          \E a2 \in Actions(h1.heap[h1.df]) : zombidito(a1, a2)

\* ingeniero reads flujo_interpreter.df.
\* The operands explored: the table's columns and two names it lacks.
Operands(t) == Names(t) \cup {"nada"}
\* FirstMissing looking at the operands from the right.
FirstMissingFromRight(t, cs) ==
    IF ~HasCol(t, cs[3]) THEN cs[3] ELSE IF ~HasCol(t, cs[2]) THEN cs[2]
    ELSE IF ~HasCol(t, cs[1]) THEN cs[1] ELSE ""
FirstMissing(t, cs) ==
    IF ~HasCol(t, cs[1]) THEN cs[1] ELSE IF ~HasCol(t, cs[2]) THEN cs[2]
    ELSE IF ~HasCol(t, cs[3]) THEN cs[3] ELSE ""
ingeniero(cs) ==
    LET who == FirstMissing(heap[wdf], cs) IN
    IF who # "" THEN Raised(Cur, "Ingeniero", 0, "ColumnNotFound", who)
    ELSE Returned(Cur, "Ingeniero", 0, 0, NoRepl)
IngenieroStmt ==
    /\ Prompt /\ Gate /\ Typed
    /\ \E c1, c2, c3 \in Operands(heap[wdf]) : ingeniero(<<c1, c2, c3>>)
    /\ BaseSame
    /\ UNCHANGED <<pc, rounds>>

\* ---------------------------------------------------------- chaos statement
\* The chaos handler runs inside app.py's InterpretadorFinal, or on its own
\* under comando_especial.main, which has no other handler and only keeps
\* df = result_df.
Hosted == idf # None
Sync(s) == IF Hosted THEN MainSync(s) ELSE [s EXCEPT !.df = s.edf]
\* A batch is followed while its tables are at most MaxWide by MaxTall.
Wide(hp) == \A o \in ObjIds : NCols(hp[o]) <= MaxWide /\ NRows(hp[o]) <= MaxTall

\* start: the count is checked, then n rounds each draw one mutation.  A
\* count above 100 asks for a confirmation (confirmed: the answer was "sí").
\* The tokenizer has no sign, so the smallest count is 0.
RosaCounts == {0} \cup (1..MaxRosa) \cup {RosaConfirm + 1}
\* start going on whatever was answered to the confirmation.
startUnconfirmed(n, confirmed) ==
    IF n <= 0
    THEN Raised(Cur, "Rosa", 0, "InvalidCount", "") /\ UNCHANGED <<pc, rounds>>
    ELSE /\ pc' = "rosa" /\ rounds' = n
         /\ last' = Outcome("Rosa", "running", 0, n, "", "")
         /\ repl' = NoRepl
         /\ UNCHANGED <<heap, df, archivo_cargado, aa, idf, fdf, fmod, edf, wdf, wbdf>>

start(n, confirmed) ==
    IF n <= 0
    THEN Raised(Cur, "Rosa", 0, "InvalidCount", "") /\ UNCHANGED <<pc, rounds>>
    ELSE IF n > RosaConfirm /\ ~confirmed
    THEN /\ Install(Sync(Cur))
         /\ last' = Outcome("Rosa", "ok", 0, 0, "", "")
         /\ repl' = NoRepl
         /\ UNCHANGED <<pc, rounds>>
    ELSE /\ pc' = "rosa" /\ rounds' = n
         /\ last' = Outcome("Rosa", "running", 0, n, "", "")
         /\ repl' = NoRepl
         /\ UNCHANGED <<heap, df, archivo_cargado, aa, idf, fdf, fmod, edf, wdf, wbdf>>
RosaStmt ==
    /\ Prompt /\ Gate /\ Typed
    /\ Hosted \/ steps < MaxBatches
    /\ \E n \in RosaCounts, confirmed \in BOOLEAN : start(n, confirmed)
    /\ BaseSame

\* One round is over (err: what it raised, caught by the round's except;
\* last.who keeps the number of the first round that raised): the next one
\* follows, or start returns self.df and main synchronises.  Of a batch
\* longer than MaxRosa the first MaxRosa rounds are explored.
EndRound(s, rebound, err) ==
    /\ Wide(s.heap)
    /\ last.calls < MaxRosa
    /\ IF rounds = 1 THEN Install(Sync(s)) ELSE Install(s)
    /\ pc' = IF rounds = 1 THEN "prompt" ELSE "rosa"
    /\ rounds' = rounds - 1
    /\ last' = [last EXCEPT !.calls = last.calls + 1,
                            !.out = IF rounds = 1 THEN "ok" ELSE "running",
                            !.err = IF err # "" THEN err ELSE last.err,
                            !.who = IF err # "" /\ last.who = "" THEN ToString(last.calls + 1)
                                    ELSE last.who]
    /\ repl' = [has |-> repl.has \/ rebound,
                t |-> IF rounds = 1 /\ (repl.has \/ rebound) THEN s.heap[s.edf] ELSE EmptyTable]
    /\ UNCHANGED <<steps, nombre_archivo, base_cargado>>
    /\ InOneStep
EspecialInPlace(t) == EndRound([Cur EXCEPT !.heap[edf] = t], FALSE, "")
EspecialRebind(t) == EndRound([Cur EXCEPT !.heap[FreeObj(Cur)] = t, !.edf = FreeObj(Cur)], TRUE, "")
Skip == EndRound(Cur, FALSE, "")
\* Caught with the batch given up instead of going on.
CaughtAborts(err) ==
    /\ Install(Cur)
    /\ pc' = "prompt" /\ rounds' = 0
    /\ last' = [last EXCEPT !.calls = last.calls + 1, !.out = "exc", !.err = err]
    /\ repl' = NoRepl
    /\ UNCHANGED <<steps, nombre_archivo, base_cargado>>
    /\ InOneStep
\* The mutation raised: "except Exception ... continue" of the round.
Caught(err) == EndRound(Cur, FALSE, err)
InRound == pc = "rosa"

\* df.at[lbl, col] = "cabra": the cell when the row label exists; else the
\* frame is enlarged by a row of that label, empty but for the cell.  A
\* string written into a numeric column is either upcast to object or
\* refused with a TypeError, depending on the pandas installed.
NaN == -2
Enlarged(t, lbl, c) ==
    [t EXCEPT !.idx = Append(t.idx, lbl),
              !.num = [i \in 1..NCols(t) |-> IF i \in ColPos(t, c) THEN FALSE ELSE t.num[i]],
              !.rows = Append(t.rows, [i \in 1..NCols(t) |-> IF i \in ColPos(t, c) THEN Cabra ELSE NaN])]
\* reemplazar_valores_por_cabra without its two guards.
reemplazar_sin_guardas ==
    LET t == heap[edf] IN
    \E i \in 1..NCols(t), p \in 0..NRows(t) :
       IF HasRow(t, p) THEN EspecialInPlace(SetCell(t, RowOf(t, p), t.cols[i]))
       ELSE EspecialInPlace(Enlarged(t, p, t.cols[i]))

reemplazar_valores_por_cabra ==
    LET t == heap[edf] IN
    IF NRows(t) = 0 \/ NCols(t) = 0 THEN Skip
    ELSE \E i \in 1..NCols(t), p \in 0..(NRows(t) - 1) :
            \/ IF HasRow(t, p) THEN EspecialInPlace(SetCell(t, RowOf(t, p), t.cols[i]))
               ELSE EspecialInPlace(Enlarged(t, p, t.cols[i]))
            \/ t.num[i] /\ Caught("TypeError")
RosaCabraCell == InRound /\ reemplazar_valores_por_cabra

\* mostrar_imagen_cabra and cabra_grafico only display.
RosaShow == InRound /\ Skip

cambiar_nombres_columnas_random ==
    LET t == heap[edf] IN
    IF NCols(t) = 0 THEN Skip
    ELSE \E names \in [{t.cols[i] : i \in 1..NCols(t)} -> RenameNames] :
            EspecialInPlace(RenameColumns(t, names))
RosaRename == InRound /\ cambiar_nombres_columnas_random

mezclar_filas_random ==
    LET t == heap[edf] IN
    IF NRows(t) = 0 THEN Skip
    ELSE \E perm \in Perms(NRows(t)) : EspecialRebind(Shuffled(t, perm))
RosaShuffle == InRound /\ mezclar_filas_random

\* drop(idx) of a label the frame does not have raises KeyError, which the
\* round catches.
eliminar_fila_aleatoria ==
    LET t == heap[edf] IN
    IF NRows(t) = 0 THEN Skip
    ELSE \E p \in 0..(NRows(t) - 1) :
            IF HasRow(t, p) THEN EspecialRebind(WithoutRow(t, p)) ELSE Caught("KeyError")
RosaDelete == InRound /\ eliminar_fila_aleatoria

duplicar_fila_aleatoria ==
    LET t == heap[edf] IN
    IF NRows(t) = 0 THEN Skip
    ELSE \E p \in 0..(NRows(t) - 1) : EspecialRebind(WithRowTwice(t, p))
RosaDuplicate == InRound /\ duplicar_fila_aleatoria

invertir_columnas ==
    LET t == heap[edf] IN
    IF NCols(t) = 0 THEN Skip ELSE EspecialRebind(ColumnsReversed(t))
RosaInvert == InRound /\ invertir_columnas

cabra_csv ==
    LET t == heap[edf] IN
    IF NCols(t) = 0 THEN Skip ELSE EspecialInPlace(AllCabra(t))
RosaCabraCsv == InRound /\ cabra_csv

\* ------------------------------------------------------- terminal statement
\* zerebros: the image is shown and exit(0) ends the process; the image is
\* missing and the handler calls self.cabra_grafico(), which AccionFinal
\* does not have (AttributeError, reported by main); or showing fails
\* otherwise, which is printed, and the handler returns None.
zerebros(outcome) ==
    CASE outcome = "shown" ->
           /\ pc' = "exited"
           /\ last' = Outcome("Zerebros", "exit", 0, 0, "", outcome)
           /\ repl' = NoRepl
           /\ UNCHANGED <<heap, df, archivo_cargado, aa, idf, fdf, fmod, edf, wdf, wbdf>>
      [] outcome = "missing" ->
           /\ Install(Cur)
           /\ last' = Outcome("Zerebros", "exc", 0, 0, "AttributeError", outcome)
           /\ repl' = NoRepl
           /\ UNCHANGED pc
      [] outcome = "failed" ->
           /\ Install(MainSync(Cur))
           /\ last' = Outcome("Zerebros", "ok", 0, 0, "", outcome)
           /\ repl' = NoRepl
           /\ UNCHANGED pc
ZerebrosStmt ==
    /\ Prompt /\ Typed
    /\ \E outcome \in {"shown", "missing", "failed"} : zerebros(outcome)
    /\ BaseSame
    /\ UNCHANGED rounds

Next ==
    \/ Reject
    \/ SyntaxErrorStmt
    \/ SolStmt
    \/ FileInfoStmt
    \/ MelonpultaStmt
    \/ MacetaStmt
    \/ HipnosetaStmt
    \/ PetacerezaStmt
    \/ JalapenoStmt
    \/ ZombisteinStmt
    \/ FootballStmt
    \/ FootballInterrupt
    \/ ZombiditoStmt
    \/ IngenieroStmt
    \/ RosaStmt
    \/ RosaCabraCell
    \/ RosaShow
    \/ RosaRename
    \/ RosaShuffle
    \/ RosaDelete
    \/ RosaDuplicate
    \/ RosaInvert
    \/ RosaCabraCsv
    \/ ZerebrosStmt

Spec == Init /\ [][Next]_vars

\* Tables a handler can be constructed on.
RECURSIVE SeqsUpTo(_, _)
SeqsUpTo(S, n) == IF n = 0 THEN {<<>>}
                  ELSE SeqsUpTo(S, n - 1) \cup
                       {Append(q, e) : q \in {q \in SeqsUpTo(S, n - 1) : Len(q) = n - 1}, e \in S}
Frame(cols, num, rows) == [cols |-> cols, num |-> num, idx |-> RangeIdx(Len(rows)), rows |-> rows]

\* ----------------------------------------------------- the chaos handler
\* comando_especial.DataFrameInterpreter under its own main: df is read,
\* every statement is a rosa count, the handler is constructed on df and
\* df = result_df afterwards.  There is no file handler, no transform or
\* control-flow handler and no InterpretadorFinal.
ChaosTables ==
    { EmptyTable,
      Frame(<<>>, <<>>, <<<<>>, <<>>>>),
      Frame(<<"x">>, <<FALSE>>, <<>>),
      Frame(<<"x">>, <<TRUE>>, <<<<2>>>>),
      Frame(<<"x", "y">>, <<TRUE, TRUE>>, <<<<1, 3>>, <<2, 4>>>>) }

ChaosInit ==
    /\ \E t \in ChaosTables : heap = [o \in ObjIds |-> IF o = 1 THEN t ELSE EmptyTable]
    /\ df = 1 /\ edf = 1
    /\ archivo_cargado = TRUE
    /\ aa = None /\ nombre_archivo = "" /\ base_cargado = FALSE
    /\ idf = None /\ fdf = None /\ fmod = FALSE /\ wdf = None /\ wbdf = None
    /\ pc = "prompt" /\ rounds = 0 /\ steps = 0
    /\ last = Outcome("none", "none", 0, 0, "", "")
    /\ repl = NoRepl
    /\ NotLexing /\ NotLooping

ChaosNext ==
    \/ RosaStmt
    \/ RosaCabraCell
    \/ RosaShow
    \/ RosaRename
    \/ RosaShuffle
    \/ RosaDelete
    \/ RosaDuplicate
    \/ RosaInvert
    \/ RosaCabraCsv

ChaosSpec == ChaosInit /\ [][ChaosNext]_vars

\* ------------------------------------------------- the transform handler
\* transformacion_filtrado.DataFrameInterpreter on its own: constructed on
\* a table, then its four methods called in any order.
\* A table longer than Petacereza's ten rows, with ties.
LongTable == Frame(<<"x">>, <<TRUE>>,
                   <<<<3>>, <<1>>, <<4>>, <<1>>, <<5>>, <<6>>, <<2>>, <<6>>, <<5>>, <<3>>, <<5>>>>)
InputTables ==
    {EmptyTable, LongTable}
    \cup {Frame(<<"x", "y">>, <<TRUE, TRUE>>, rows) : rows \in SeqsUpTo({<<1, 3>>, <<2, 4>>}, MaxRows)}
    \cup {Frame(<<"x">>, <<TRUE>>, rows) : rows \in SeqsUpTo({<<1>>, <<2>>}, MaxRows)}
    \cup {Frame(<<"x">>, <<FALSE>>, rows) : rows \in SeqsUpTo({<<Cabra>>}, MaxRows)}
    \cup {Frame(<<"x", "y">>, <<TRUE, FALSE>>, rows) : rows \in SeqsUpTo({<<1, Cabra>>, <<2, 3>>}, MaxRows)}

HandlerInit ==
    /\ \E t \in InputTables : heap = [o \in ObjIds |-> IF o = 1 THEN t ELSE EmptyTable]
    /\ df = None /\ archivo_cargado = FALSE
    /\ aa = None /\ nombre_archivo = "" /\ base_cargado = FALSE
    /\ idf = 1 /\ fdf = 1 /\ fmod = FALSE /\ edf = 1 /\ wdf = 1 /\ wbdf = 1
    /\ pc = "prompt" /\ rounds = 0 /\ steps = 0
    /\ last = Outcome("none", "none", 0, 0, "", "")
    /\ repl = NoRepl
    /\ NotLexing /\ NotLooping

\* One method call: the handler's df and modified change, nothing else.
Call(kind, a) ==
    LET h == EvalAction(H0(Cur), a, {}) IN
    /\ steps < MaxCalls /\ Typed
    /\ Explored(h.heap)
    /\ heap' = [o \in ObjIds |-> IF o = h.df THEN h.heap[o] ELSE EmptyTable]
    /\ fdf' = h.df /\ fmod' = h.mod
    /\ idf' = h.df /\ edf' = h.df /\ wdf' = h.df /\ wbdf' = h.df
    /\ last' = Outcome(kind, IF h.exc = "" THEN "ok" ELSE "exc", h.calls, 0, h.exc, "")
    /\ repl' = Produced(h)
    /\ UNCHANGED <<df, archivo_cargado, aa, nombre_archivo, base_cargado, pc, rounds>>
CallMaceta == \E c1, c2 \in Names(heap[fdf]) : Call("Maceta", Act("Maceta", c1, c2))
CallHipnoseta == \E c \in Names(heap[fdf]) : Call("Hipnoseta", Act("Hipnoseta", c, ""))
CallPetacereza == \E c \in Names(heap[fdf]) : Call("Petacereza", Act("Petacereza", c, ""))
CallJalapeno == \E c \in Names(heap[fdf]) : Call("Jalapeno", Act("Jalapeno", c, ""))

HandlerNext ==
    \/ CallMaceta
    \/ CallHipnoseta
    \/ CallPetacereza
    \/ CallJalapeno

HandlerSpec == HandlerInit /\ [][HandlerNext]_vars

\* --------------------------------------------------------- the file handler
\* manejo_archivos on its own: its interactive mode keeps one ManejoArchivos
\* and hands every command to ejecutar.
FileInit ==
    /\ heap = [o \in ObjIds |-> EmptyTable]
    /\ df = None /\ archivo_cargado = FALSE
    /\ aa = None /\ nombre_archivo = "" /\ base_cargado = FALSE
    /\ idf = None /\ fdf = None /\ fmod = FALSE /\ edf = None /\ wdf = None /\ wbdf = None
    /\ pc = "prompt" /\ rounds = 0 /\ steps = 0
    /\ last = Outcome("none", "none", 0, 0, "", "")
    /\ repl = NoRepl
    /\ NotLexing /\ NotLooping

\* ejecutar: the command's value is printed and returned.  A command ends
\* with exito, with an error value, or with an exception leaving the
\* operation.
Ejecutado(kind, r, who) ==
    /\ Prompt /\ Typed
    /\ last' = Outcome(kind, IF r = "exito" THEN "ok" ELSE IF r = "raise" THEN "exc" ELSE "error",
                       0, 0, r, who)
    /\ repl' = NoRepl
    /\ UNCHANGED <<pc, rounds>>
Untouched == UNCHANGED <<heap, df, archivo_cargado, aa, nombre_archivo, base_cargado, idf,
                         fdf, fmod, edf, wdf, wbdf>>

EjecutarSol ==
    \E path \in Paths :
       /\ Ejecutado("Sol", SolResult(path), path)
       /\ Install(sol(Cur, path))
       /\ nombre_archivo' = IF SolResult(path) = "exito" THEN path ELSE nombre_archivo
       /\ base_cargado' = IF SolResult(path) = "exito" THEN TRUE ELSE base_cargado
EjecutarCarnivora ==
    \E ruta \in Paths \cup {Omitted}, w \in WriteOutcomes \ {"ImportError"} :
       Ejecutado("Carnivora", CarnivoraResult(ruta, w), w) /\ Untouched
EjecutarPapapum ==
    \E ruta \in {"", "salida", "salida.csv"}, formato \in formatos_validos \cup {"pdf", Omitted},
       w \in WriteOutcomes :
       /\ w = "ImportError" => formato \in {"excel", "xlsx"}
       /\ Ejecutado("Papapum", PapapumResult(ruta, formato, w), w) /\ Untouched
EjecutarMagnetoseta ==
    Ejecutado("Magnetoseta", IF base_cargado /\ aa # None THEN "exito" ELSE "info", "")
    /\ Untouched
EjecutarMelonpulta ==
    /\ Ejecutado("Melonpulta", IF base_cargado THEN "exito" ELSE "info", "")
    /\ IF base_cargado
       THEN /\ Install([Cur EXCEPT !.aa = None])
            /\ nombre_archivo' = "" /\ base_cargado' = FALSE
       ELSE Untouched

FileNext ==
    \/ EjecutarSol
    \/ EjecutarCarnivora
    \/ EjecutarPapapum
    \/ EjecutarMagnetoseta
    \/ EjecutarMelonpulta

FileSpec == FileInit /\ [][FileNext]_vars

\* ----------------------------------------------------------------- lexer
\* app.tokenize on its own, one match of the master pattern per step.
\* A string literal as its characters.
Chars(str) ==
    CASE str = "Zerebros" -> <<"Z", "e", "r", "e", "b", "r", "o", "s">>
      [] str = "Sol" -> <<"S", "o", "l">>
      [] str = "Carnivora" -> <<"C", "a", "r", "n", "i", "v", "o", "r", "a">>
      [] str = "Papapum" -> <<"P", "a", "p", "a", "p", "u", "m">>
      [] str = "Magnetoseta" -> <<"M", "a", "g", "n", "e", "t", "o", "s", "e", "t", "a">>
      [] str = "melonpulta_gelida" -> <<"m", "e", "l", "o", "n", "p", "u", "l", "t", "a", "_", "g", "e", "l", "i", "d", "a">>
      [] str = "Maceta" -> <<"M", "a", "c", "e", "t", "a">>
      [] str = "Hipnoseta" -> <<"H", "i", "p", "n", "o", "s", "e", "t", "a">>
      [] str = "Petacereza" -> <<"P", "e", "t", "a", "c", "e", "r", "e", "z", "a">>
      [] str = "Jalapeño" -> <<"J", "a", "l", "a", "p", "e", "ñ", "o">>
      [] str = "Football" -> <<"F", "o", "o", "t", "b", "a", "l", "l">>
      [] str = "Ingeniero" -> <<"I", "n", "g", "e", "n", "i", "e", "r", "o">>
      [] str = "Zombidito" -> <<"Z", "o", "m", "b", "i", "d", "i", "t", "o">>
      [] str = "Zombistein" -> <<"Z", "o", "m", "b", "i", "s", "t", "e", "i", "n">>
      [] str = "rosa" -> <<"r", "o", "s", "a">>
      [] str = "Rosa" -> <<"R", "o", "s", "a">>
      [] str = " x" -> <<" ", "x">>
      [] str = " x y" -> <<" ", "x", " ", "y">>
      [] str = " 3" -> <<" ", "3">>
      [] str = " \"f.csv\"" -> <<" ", "\"", "f", ".", "c", "s", "v", "\"">>
      [] str = " (Maceta x y)" -> <<" ", "(", "M", "a", "c", "e", "t", "a", " ", "x", " ", "y", ")">>
      [] str = " x+y" -> <<" ", "x", "+", "y">>
      [] str = "x" -> <<"x">>
      [] str = "(" -> <<"(">>
      [] str = ")" -> <<")">>
      [] OTHER -> <<>>
Digits == {"0", "1", "2", "3", "4", "5", "6", "7", "8", "9"}
AsciiLetters == {"a", "b", "c", "d", "e", "f", "g", "h", "i", "j", "k", "l", "m", "n", "o", "p", "q", "r", "s", "t", "u", "v", "w", "x", "y", "z", "A", "B", "C", "D", "E", "F", "G", "H", "I", "J", "K", "L", "M", "N", "O", "P", "Q", "R", "S", "T", "U", "V", "W", "X", "Y", "Z"}
\* [a-zA-Z_áéíóúÁÉÍÓÚñÑ] and \w
ColumnStart == AsciiLetters \cup {"_", "á", "é", "í", "ó", "ú", "Á", "É", "Í", "Ó", "Ú", "ñ", "Ñ"}
WordChars == ColumnStart \cup Digits
Blank == {" ", "\t"}

\* token_specs, in the order of the alternatives of the master pattern: a
\* literal, a quoted string, or one character of first and any of rest.
token_specs ==
    <<[name |-> "ZEREBROS", kind |-> "lit", lit |-> Chars("Zerebros"), first |-> {}, rest |-> {}],
      [name |-> "SOL", kind |-> "lit", lit |-> Chars("Sol"), first |-> {}, rest |-> {}],
      [name |-> "CARNIVORA", kind |-> "lit", lit |-> Chars("Carnivora"), first |-> {}, rest |-> {}],
      [name |-> "PAPAPUM", kind |-> "lit", lit |-> Chars("Papapum"), first |-> {}, rest |-> {}],
      [name |-> "MAGNETOSETA", kind |-> "lit", lit |-> Chars("Magnetoseta"), first |-> {}, rest |-> {}],
      [name |-> "MELONPULTA", kind |-> "lit", lit |-> Chars("melonpulta_gelida"), first |-> {}, rest |-> {}],
      [name |-> "MACETA", kind |-> "lit", lit |-> Chars("Maceta"), first |-> {}, rest |-> {}],
      [name |-> "HIPNOSETA", kind |-> "lit", lit |-> Chars("Hipnoseta"), first |-> {}, rest |-> {}],
      [name |-> "PETACEREZA", kind |-> "lit", lit |-> Chars("Petacereza"), first |-> {}, rest |-> {}],
      [name |-> "JALAPENO", kind |-> "lit", lit |-> Chars("Jalapeño"), first |-> {}, rest |-> {}],
      [name |-> "FOOTBALL", kind |-> "lit", lit |-> Chars("Football"), first |-> {}, rest |-> {}],
      [name |-> "INGENIERO", kind |-> "lit", lit |-> Chars("Ingeniero"), first |-> {}, rest |-> {}],
      [name |-> "ZOMBIDITO", kind |-> "lit", lit |-> Chars("Zombidito"), first |-> {}, rest |-> {}],
      [name |-> "ZOMBISTEIN", kind |-> "lit", lit |-> Chars("Zombistein"), first |-> {}, rest |-> {}],
      [name |-> "ROSA", kind |-> "lit", lit |-> Chars("rosa"), first |-> {}, rest |-> {}],
      [name |-> "LPAREN", kind |-> "lit", lit |-> Chars("("), first |-> {}, rest |-> {}],
      [name |-> "RPAREN", kind |-> "lit", lit |-> Chars(")"), first |-> {}, rest |-> {}],
      [name |-> "NUMBER", kind |-> "run", lit |-> <<>>, first |-> Digits, rest |-> Digits],
      [name |-> "STRING", kind |-> "quoted", lit |-> <<>>, first |-> {}, rest |-> {}],
      [name |-> "COLUMN", kind |-> "run", lit |-> <<>>, first |-> ColumnStart, rest |-> WordChars],
      [name |-> "SKIP", kind |-> "run", lit |-> <<>>, first |-> Blank, rest |-> Blank]>>

\* Where a pattern matching at position p ends; -1 when it does not match.
RECURSIVE RunEnd(_, _, _)
RunEnd(c, e, class) == IF e < Len(c) /\ c[e + 1] \in class THEN RunEnd(c, e + 1, class) ELSE e
RECURSIVE QuoteEnd(_, _)
QuoteEnd(c, e) ==
    IF e >= Len(c) THEN -1 ELSE IF c[e + 1] = "\"" THEN e + 1 ELSE QuoteEnd(c, e + 1)
MatchEnd(spec, c, p) ==
    IF spec.kind = "lit"
    THEN IF p + Len(spec.lit) <= Len(c) /\ SubSeq(c, p + 1, p + Len(spec.lit)) = spec.lit
         THEN p + Len(spec.lit) ELSE -1
    ELSE IF spec.kind = "quoted"
    THEN IF p < Len(c) /\ c[p + 1] = "\"" THEN QuoteEnd(c, p + 1) ELSE -1
    ELSE IF p < Len(c) /\ c[p + 1] \in spec.first THEN RunEnd(c, p + 1, spec.rest) ELSE -1
\* master.match(code, pos): the alternatives that match; the first one wins.
Matching(c, p) == {i \in 1..Len(token_specs) : MatchEnd(token_specs[i], c, p) # -1}

\* The statements handed to tokenize: a first word and what follows it.
Statements ==
    {Chars(w) \o Chars(r) :
        w \in {"Zerebros", "Sol", "Carnivora", "Papapum", "Magnetoseta",
              "melonpulta_gelida", "Maceta", "Hipnoseta", "Petacereza",
              "Jalapeño", "Football", "Ingeniero", "Zombidito", "Zombistein", "rosa", "Rosa"},
        r \in {"", " x", " x y", " 3", " \"f.csv\"", " (Maceta x y)", " x+y", "x", "(", ")"}}

\* No session around the function looked at.
Dormant ==
    /\ heap = [o \in ObjIds |-> EmptyTable]
    /\ df = None /\ archivo_cargado = FALSE
    /\ aa = None /\ nombre_archivo = "" /\ base_cargado = FALSE
    /\ idf = None /\ fdf = None /\ fmod = FALSE /\ edf = None /\ wdf = None /\ wbdf = None
    /\ rounds = 0 /\ steps = 0
    /\ repl = NoRepl
StaysDormant == UNCHANGED <<heap, df, archivo_cargado, aa, nombre_archivo, base_cargado, idf,
                            fdf, fmod, edf, wdf, wbdf, rounds, steps, repl>>

LexInit ==
    /\ Dormant /\ NotLooping
    /\ pc = "prompt"
    /\ code \in Statements /\ pos = 0 /\ tokens = <<>>
    /\ last = Outcome("tokenize", "running", 0, 0, "", "")
\* tokenize is running; a step of it leaves everything else alone.
LexStep ==
    /\ last.kind = "tokenize" /\ last.out = "running"
    /\ StaysDormant /\ UNCHANGED <<pc, code, start_time, clock, count, result>>

\* One turn of the while loop with a match: the token is kept unless SKIP.
TokenizeMatch ==
    /\ pos < Len(code) /\ Matching(code, pos) # {}
    /\ LET first == CHOOSE i \in Matching(code, pos) : \A j \in Matching(code, pos) : i <= j
           spec == token_specs[first]
           end == MatchEnd(spec, code, pos) IN
       /\ tokens' = IF spec.name # "SKIP"
                    THEN Append(tokens, <<spec.name, SubSeq(code, pos + 1, end)>>)
                    ELSE tokens
       /\ pos' = end
    /\ UNCHANGED last
    /\ LexStep
\* No alternative matches: SyntaxError.
TokenizeRaise ==
    /\ pos < Len(code) /\ Matching(code, pos) = {}
    /\ last' = [last EXCEPT !.out = "syntax"]
    /\ UNCHANGED <<pos, tokens>>
    /\ LexStep
\* pos has reached the end: tokens is returned.
TokenizeReturn ==
    /\ pos >= Len(code)
    /\ last' = [last EXCEPT !.out = "ok"]
    /\ UNCHANGED <<pos, tokens>>
    /\ LexStep

LexNext ==
    \/ TokenizeMatch
    \/ TokenizeRaise
    \/ TokenizeReturn

LexSpec == LexInit /\ [][LexNext]_vars

\* The words the grammar accepts as the first word of a statement, and the
\* kind token_specs names after each.
GrammarKeywords ==
    {<<"Zerebros", "ZEREBROS">>,
     <<"Sol", "SOL">>,
     <<"Carnivora", "CARNIVORA">>,
     <<"Papapum", "PAPAPUM">>,
     <<"Magnetoseta", "MAGNETOSETA">>,
     <<"melonpulta_gelida", "MELONPULTA">>,
     <<"Maceta", "MACETA">>,
     <<"Hipnoseta", "HIPNOSETA">>,
     <<"Petacereza", "PETACEREZA">>,
     <<"Jalapeño", "JALAPENO">>,
     <<"Football", "FOOTBALL">>,
     <<"Ingeniero", "INGENIERO">>,
     <<"Zombidito", "ZOMBIDITO">>,
     <<"Zombistein", "ZOMBISTEIN">>,
     <<"Rosa", "ROSA">>}

\* ------------------------------------------------------------ football
\* control_de_flujo_variables.football on its own, from "result = None" on.
\* Time is counted in half seconds: the ten seconds of the loop condition,
\* the pause of time.sleep(0.5), and by how much longer than its pause a
\* turn of the loop may take.
TenSeconds == 20
Pause == 1
\* items[0], the table the action returned.
action_tree == 1

FootballInit ==
    /\ Dormant /\ NotLexing
    /\ pc = "while"
    /\ start_time \in 0..MaxLag
    /\ clock \in start_time..(start_time + MaxLag)
    /\ count = 0 /\ result = None
    /\ last = Outcome("Football", "running", 0, 0, "", "")

\* The loop condition read as true whatever the clock says.
ExpiredAtOnce == clock - start_time >= 0
\* not ((time.time() - start_time) < 10)
Expired == clock - start_time >= TenSeconds
LoopEnter ==
    /\ pc = "while" /\ ~Expired
    /\ pc' = "body"
    /\ UNCHANGED <<clock, count, result, last>>
    /\ StaysDormant /\ UNCHANGED <<code, pos, tokens, start_time>>
LoopBody ==
    /\ pc = "body"
    /\ count' = count + 1
    /\ result' = action_tree
    /\ \E d \in Pause..(Pause + MaxLag) : clock' = clock + d
    /\ pc' = "while"
    /\ UNCHANGED last
    /\ StaysDormant /\ UNCHANGED <<code, pos, tokens, start_time>>
LoopReturn ==
    /\ pc = "while" /\ Expired
    /\ pc' = "returned"
    /\ last' = [last EXCEPT !.out = "ok", !.iters = count]
    /\ UNCHANGED <<clock, count, result>>
    /\ StaysDormant /\ UNCHANGED <<code, pos, tokens, start_time>>

FootballNext ==
    \/ LoopEnter
    \/ LoopBody
    \/ LoopReturn

\* The process keeps running: a step that can be taken is taken.
FootballSpec == FootballInit /\ [][FootballNext]_vars /\ WF_vars(FootballNext)

\* ------------------------------------------------------- model soundness
\* The tables the chaos handler works on carry the labels 0..n-1, so a
\* position drawn by randint names an existing row; and a new object is
\* always available.
EspecialIndexIsRange == heap[edf].idx = RangeIdx(NRows(heap[edf]))
ObjectsSuffice == Cardinality(Refs(Cur)) + 2 <= NumObj

\* ------------------------------------------------------------------ claims
AtPrompt == pc = "prompt"
\* What a reference holds: nothing for None, else the table.
Content(hp, r) == IF r = None THEN <<>> ELSE <<hp[r]>>
SemanticErrors == {"ColumnNotFound", "NonNumeric", "EmptyTable", "OnlyColumn", "InvalidCount"}

\* C1: after a statement that completed without error and whose handler
\* produced a replacement table, main's df, archivo_actual and every
\* handler's df are that replacement table at the next prompt.
C1_ReplacementInstalled ==
    (AtPrompt /\ last.out = "ok" /\ repl.has) =>
        \A r \in {df, aa, idf, fdf, edf, wdf, wbdf} : Content(heap, r) = <<repl.t>>
C1_Witness == AtPrompt /\ last.out = "ok" /\ repl.has /\ last.kind = "Petacereza"

\* C2: at every statement boundary the transform handler, the chaos
\* handler, the control-flow handler and its inner interpreter hold the same
\* table.
C2_HandlersAgree ==
    AtPrompt => /\ heap[fdf] = heap[edf]
                /\ heap[edf] = heap[wdf]
                /\ heap[wdf] = heap[wbdf]
C2_Witness == AtPrompt /\ last.out = "exc" /\ fdf # edf

\* C3: Zombistein(Maceta a b) on a table without the derived column leaves
\* the derived column equal to 3*(a+b): the action is applied three times.
C3_ZombisteinThrice ==
    [][\A c1, c2 \in Names(heap[fdf]) :
          (/\ Prompt /\ Gate /\ Typed
           /\ ~HasCol(heap[fdf], SumName(c1, c2))
           /\ zombistein(Act("Maceta", c1, c2))
           /\ last'.out = "ok")
          => Column(heap'[df'], SumName(c1, c2)) =
                 [r \in 1..NRows(heap[fdf]) |->
                     3 * (Column(heap[fdf], c1)[r] + Column(heap[fdf], c2)[r])]]_vars
C3_Witness == AtPrompt /\ last.kind = "Zombistein" /\ last.out = "ok" /\ last.calls = 1

\* C4: Football(Maceta a b) whose loop ran k iterations has applied the
\* action k times: on a table without the derived column it leaves k*(a+b).
C4_FootballEveryIteration ==
    [][\A c1, c2 \in Names(heap[fdf]) : \A k \in 1..MaxIter :
          (/\ Prompt /\ Gate /\ Typed
           /\ ~HasCol(heap[fdf], SumName(c1, c2))
           /\ football(Act("Maceta", c1, c2), k)
           /\ last'.out = "ok")
          => Column(heap'[df'], SumName(c1, c2)) =
                 [r \in 1..NRows(heap[fdf]) |->
                     k * (Column(heap[fdf], c1)[r] + Column(heap[fdf], c2)[r])]]_vars
C4_Witness == AtPrompt /\ last.kind = "Football" /\ last.out = "ok" /\ last.iters = 2 /\ last.calls = 1

\* C5: a statement that ends in a semantic error leaves the content of
\* every table reference of the session as it was.
C5_ErrorLeavesTables ==
    [][(AtPrompt /\ steps' = steps + 1 /\ last'.out = "exc" /\ last'.err \in SemanticErrors)
          => /\ Content(heap', df') = Content(heap, df)
             /\ Content(heap', aa') = Content(heap, aa)
             /\ heap'[idf'] = heap[idf]
             /\ heap'[fdf'] = heap[fdf]
             /\ heap'[edf'] = heap[edf]
             /\ heap'[wdf'] = heap[wdf]
             /\ heap'[wbdf'] = heap[wbdf]]_vars
C5_Witness == AtPrompt /\ last.kind = "Zombidito" /\ last.out = "exc" /\ last.calls = 2
                 /\ last.err \in SemanticErrors

\* C6: Zerebros always ends the session, however the display went.
C6_ZerebrosEnds == last.kind = "Zerebros" => pc = "exited"
C6_Witness == last.kind = "Zerebros" /\ pc = "prompt" /\ last.who = "missing"

\* C7: before any load has succeeded every statement other than a load or
\* Zerebros is rejected, and main's archivo_cargado becomes true only by a
\* load that succeeded.
C7_LoadedOnlyByLoad ==
    [][/\ (~archivo_cargado /\ steps' = steps + 1 /\ last'.kind \notin {"Sol", "Zerebros", "Malformed"})
            => (last'.out = "rejected" /\ UNCHANGED <<heap, df, aa, fdf, edf, archivo_cargado>>)
       /\ (~archivo_cargado /\ archivo_cargado')
            => (last'.kind = "Sol" /\ last'.out = "ok")]_vars
C7_Witness == archivo_cargado /\ ~base_cargado /\ nombre_archivo = "" /\ steps = 2
                 /\ last.kind = "Sol" /\ last.out = "error"

\* C8: the column names of every table are pairwise distinct in every
\* reachable state, whatever a Rosa batch drew.
C8_ColumnsDistinct == \A o \in ObjIds : ColumnsDistinct(heap[o])
C8_Witness == AtPrompt /\ last.kind = "Rosa" /\ last.out = "ok" /\ ~ColumnsDistinct(heap[edf])

\* C9: Maceta a b on numeric columns creates a_mas_b = a + b, or adds a + b
\* onto an existing a_mas_b; k applications from a table without it give
\* k*(a+b); no other column, no row label and no row count changes.
MacetaOn(c1, c2) == maceta(H0(Cur), c1, c2, Refs(Cur))
SumOf(t, c1, c2, r) == Column(t, c1)[r] + Column(t, c2)[r]
C9_MacetaAccumulates ==
    \A c1, c2 \in Names(heap[fdf]) :
        LET t == heap[fdf]
            new == SumName(c1, c2)
            h1 == MacetaOn(c1, c2)
            t1 == h1.heap[h1.df]
            h2 == maceta(h1, c1, c2, Refs(Cur))
            t2 == h2.heap[h2.df]
        IN  h1.exc = "" =>
              /\ h1.df = fdf /\ h1.mod
              /\ t1.idx = t.idx
              /\ t1.cols = IF HasCol(t, new) THEN t.cols ELSE Append(t.cols, new)
              /\ \A r \in 1..NRows(t) :
                    /\ Column(t1, new)[r] =
                          (IF HasCol(t, new) THEN Column(t, new)[r] ELSE 0) + SumOf(t, c1, c2, r)
                    /\ \A i \in 1..NCols(t) : t.cols[i] # new => t1.rows[r][i] = t.rows[r][i]
              /\ h2.exc = "" /\ t2.cols = t1.cols /\ t2.idx = t.idx
              /\ \A r \in 1..NRows(t) :
                    /\ Column(t2, new)[r] = Column(t1, new)[r] + SumOf(t, c1, c2, r)
                    /\ ~HasCol(t, new) => Column(t2, new)[r] = 2 * SumOf(t, c1, c2, r)
                    /\ \A i \in 1..NCols(t) : t.cols[i] # new => t2.rows[r][i] = t.rows[r][i]
C9_Witness ==
    /\ AtPrompt /\ last.kind = "Maceta" /\ last.out = "ok"
    /\ HasCol(heap[fdf], "x_mas_y") /\ NRows(heap[fdf]) = 2
    /\ Column(heap[fdf], "x_mas_y") = <<8, 12>>
    /\ Column(heap[fdf], "x") = <<1, 2>> /\ Column(heap[fdf], "y") = <<3, 4>>

\* C10: Jalapeño c on a table whose only column is c fails with the
\* only-column error, not column-not-found, for any row count, and leaves
\* the table and the handler's modified flag unchanged.
C10_OnlyColumnRejected ==
    \A c \in Names(heap[fdf]) :
        LET h == jalapeno(H0(Cur), c, Refs(Cur)) IN
        heap[fdf].cols = <<c>> =>
            /\ h.exc = "OnlyColumn" /\ h.exc # "ColumnNotFound"
            /\ h.df = fdf /\ h.heap = heap /\ h.mod = fmod
C10_Witness == /\ last.kind = "Jalapeno" /\ last.err = "OnlyColumn"
               /\ heap[fdf].cols = <<"x">> /\ NRows(heap[fdf]) = 2 /\ ~fmod

\* C11: a Jalapeno of a column the table does not have raises column-not-found
\* and leaves the handler as it was; a Jalapeno of a column of a table with
\* at least two columns succeeds and yields the columns with another label,
\* in their order, with the same row labels and the same cells.
C11_DropKeepsTheRest ==
    \A c \in Names(heap[fdf]) :
        LET t == heap[fdf]
            h == jalapeno(H0(Cur), c, Refs(Cur))
            u == h.heap[h.df] IN
        /\ ~HasCol(t, c) => (h.exc = "ColumnNotFound" /\ h.df = fdf /\ h.heap = heap)
        /\ (HasCol(t, c) /\ NCols(t) >= 2) =>
              /\ h.exc = ""
              /\ u.cols = SelectSeq(t.cols, LAMBDA d : d # c)
              /\ NRows(u) = NRows(t) /\ u.idx = t.idx
              /\ \A r \in 1..NRows(u) : Len(u.rows[r]) = NCols(u)
              /\ \A d \in Names(t) \ {c, "nope"} :
                    /\ Column(u, d) = Column(t, d)
                    /\ u.num[PosOf(u, d)] = t.num[PosOf(t, d)]
C11_Witness == /\ last.kind = "Jalapeno" /\ last.out = "ok"
               /\ heap[fdf].cols = <<"x", "x_mas_y">> /\ NRows(heap[fdf]) = 2
               /\ Column(heap[fdf], "x_mas_y") = <<4, 6>>

\* C12: an Ingeniero statement naming a column the table lacks raises
\* column-not-found for the first such operand from the left; one whose
\* operands all exist (repeated or not) returns; either way the table it
\* reads, main's df and archivo_actual have the content they had, and no
\* table object is written (an object nothing refers to any more is gone).
C12_CaptureReadsOnly ==
    [][(steps' = steps + 1 /\ last'.kind = "Ingeniero" /\ last'.out # "rejected") =>
       \A c1, c2, c3 \in Operands(heap[wdf]) :
          (Prompt /\ Gate /\ Typed /\ ingeniero(<<c1, c2, c3>>)) =>
             LET cs == <<c1, c2, c3>>
                 missing == {i \in 1..3 : ~HasCol(heap[wdf], cs[i])} IN
             /\ missing # {} =>
                   /\ last'.out = "exc" /\ last'.err = "ColumnNotFound"
                   /\ \E i \in missing : (\A j \in missing : i <= j) /\ last'.who = cs[i]
             /\ missing = {} => last'.out = "ok"
             /\ Content(heap', wdf') = Content(heap, wdf)
             /\ Content(heap', df') = Content(heap, df)
             /\ Content(heap', aa') = Content(heap, aa)
             /\ \A o \in Refs(Cur) : heap'[o] \in {heap[o], EmptyTable}]_vars
C12_Witness == /\ AtPrompt /\ last.kind = "Ingeniero" /\ last.out = "exc"
               /\ last.who = "nada" /\ NCols(heap[wdf]) = 2 /\ NRows(heap[wdf]) = 2

\* C13: a Zombidito that passed the gate made one or two evaluations, two
\* when it returned.  At every prompt where statements are accepted the two
\* actions are evaluated once each, in the order written, the second on the
\* table the first one left: Maceta c1 c2 followed by Jalapeno c1_mas_c2
\* succeeds on a table that had no such column and gives back the table's
\* own columns, while the same two in the other order fail at the first;
\* Jalapeno c1 followed by Maceta c1 c2 fails at the second, which no longer
\* finds c1.
C13_PairInOrder ==
    /\ (last.kind = "Zombidito" /\ last.out # "rejected") =>
          (last.calls \in {1, 2} /\ (last.out = "ok" => last.calls = 2))
    /\ (AtPrompt /\ Gate) =>
          LET t == heap[fdf] IN
          \A c1, c2 \in Names(t) :
             (IsNumeric(t, c1) /\ IsNumeric(t, c2) /\ ~HasCol(t, SumName(c1, c2))) =>
                LET m == Act("Maceta", c1, c2)
                    j == Act("Jalapeno", SumName(c1, c2), "")
                    d == Act("Jalapeno", c1, "")
                    h == Evaluate(Cur, m, j)
                    g == Evaluate(Cur, j, m)
                    f == Evaluate(Cur, d, m) IN
                /\ h.exc = "" /\ h.calls = 2
                /\ h.heap[h.df].cols = t.cols
                /\ h.heap[fdf].cols = Append(t.cols, SumName(c1, c2))
                /\ g.exc = "ColumnNotFound" /\ g.calls = 1 /\ g.heap = heap
                /\ NCols(t) >= 2 => (f.exc = "ColumnNotFound" /\ f.calls = 2 /\ f.df # fdf)
C13_Witness == /\ AtPrompt /\ steps = 2 /\ last.kind = "Zombidito" /\ last.out = "ok"
               /\ last.calls = 2 /\ repl.has /\ repl.t.cols = <<"x", "y">>
               /\ heap[aa].cols = <<"x", "y", "x_mas_y">>

\* C14: a Rosa statement with count 0 raises before any round and one with a
\* count above 100 whose confirmation is declined returns at once: either
\* way no round is drawn and the handler's table is the same object with
\* the same content.  A batch starts exactly for 1 <= n <= 100 and for
\* n > 100 when confirmed, with n rounds to draw and the table untouched;
\* the handler's table changes only inside a batch.
C14_NoRoundUnlessAccepted ==
    [][/\ (heap'[edf'] # heap[edf] \/ last'.calls > last.calls) => pc = "rosa"
       /\ (steps' = steps + 1 /\ last'.kind = "Rosa") =>
            \A n \in RosaCounts, confirmed \in BOOLEAN :
               (Prompt /\ Gate /\ Typed /\ start(n, confirmed)) =>
                  /\ n <= 0 => (last'.out = "exc" /\ last'.err = "InvalidCount")
                  /\ (n > RosaConfirm /\ ~confirmed) => last'.out = "ok"
                  /\ (n <= 0 \/ (n > RosaConfirm /\ ~confirmed)) =>
                        (pc' = "prompt" /\ rounds' = 0 /\ last'.calls = 0)
                  /\ pc' = "rosa" <=>
                        ((1 <= n /\ n <= RosaConfirm) \/ (n > RosaConfirm /\ confirmed))
                  /\ pc' = "rosa" => (rounds' = n /\ last'.calls = 0)
                  /\ edf' = edf /\ heap'[edf'] = heap[edf]]_vars
C14_Witness == /\ AtPrompt /\ last.kind = "Rosa" /\ last.out = "ok" /\ last.iters = 0
               /\ last.calls = 0 /\ steps = 2 /\ NRows(heap[edf]) = 3

\* C15: in a round of a chaos batch the delete-row mutation takes exactly
\* one row away when there is one, the duplicate-row mutation adds exactly
\* one when there is one, and every other mutation (cell replacement,
\* display, rename, shuffle, column reversal, replace-all) leaves both the
\* row count and the column count as they were; no round changes the row
\* count by more than one.
C15_RowCountByDeleteDuplicate ==
    [][InRound =>
          LET t == heap[edf]
              u == heap'[edf'] IN
          /\ RosaDelete => NRows(u) = (IF NRows(t) > 0 THEN NRows(t) - 1 ELSE 0)
          /\ RosaDuplicate => NRows(u) = (IF NRows(t) > 0 THEN NRows(t) + 1 ELSE 0)
          /\ (RosaCabraCell \/ RosaShow \/ RosaRename \/ RosaShuffle \/ RosaInvert
                \/ RosaCabraCsv) => (NRows(u) = NRows(t) /\ NCols(u) = NCols(t))
          /\ NRows(u) - NRows(t) \in {-1, 0, 1}]_vars
C15_Witness == /\ last.kind = "Rosa" /\ last.calls = 2 /\ steps = 1
               /\ heap[edf].cols = <<"col_1000", "col_1000", "col_1000", "col_1000">>
               /\ NRows(heap[edf]) = 2

\* C16: an accepted chaos batch of n rounds has, while it runs, drawn the
\* rounds it has not still to draw; when it is over it has returned after
\* exactly n rounds, whether or not some of them raised; a Rosa statement
\* fails only on its count, before any round.
C16_BatchRunsAllRounds ==
    last.kind = "Rosa" =>
       /\ pc = "rosa" =>
             (last.out = "running" /\ rounds >= 1 /\ rounds + last.calls = last.iters)
       /\ (pc = "prompt" /\ last.iters > 0) =>
             (last.out = "ok" /\ rounds = 0 /\ last.calls = last.iters)
       /\ last.out = "exc" =>
             (last.err = "InvalidCount" /\ last.calls = 0 /\ last.iters = 0)
       /\ last.who # "" => last.err \in {"TypeError", "KeyError"}
C16_Witness == /\ AtPrompt /\ last.kind = "Rosa" /\ last.out = "ok" /\ last.iters = 2
               /\ last.calls = 2 /\ last.err = "TypeError" /\ last.who = "1" /\ repl.has
               /\ NRows(heap[edf]) = 3

\* C17: a round drawn on a table without rows leaves it without rows and a
\* round drawn on a table without columns leaves it without columns, and in
\* neither case does the round raise, whichever mutation was drawn.
C17_DegenerateTablesSkip ==
    [][InRound =>
          /\ NRows(heap[edf]) = 0 => (NRows(heap'[edf']) = 0 /\ last'.err = last.err)
          /\ NCols(heap[edf]) = 0 => (NCols(heap'[edf']) = 0 /\ last'.err = last.err)]_vars
C17_Witness == /\ AtPrompt /\ last.kind = "Rosa" /\ last.out = "ok" /\ last.calls = 2
               /\ last.err = "" /\ steps = 1
               /\ heap[edf].cols = <<"col_1001">> /\ NRows(heap[edf]) = 0

\* C18: on every table where Petacereza c succeeds it leaves at most ten
\* rows, in descending order of c, and a second Petacereza c on the result
\* succeeds and yields the same table: the same rows under the same labels
\* in the same order, the same columns.
C18_PetacerezaIdempotent ==
    \A c \in Names(heap[fdf]) :
        LET h1 == petacereza(H0(Cur), c, Refs(Cur))
            p == h1.heap[h1.df] IN
        h1.exc = "" =>
           LET h2 == petacereza(h1, c, Refs(Cur)) IN
           /\ NRows(p) = Min(TopN, NRows(heap[fdf]))
           /\ \A r \in 1..(NRows(p) - 1) : Column(p, c)[r] >= Column(p, c)[r + 1]
           /\ h2.exc = ""
           /\ h2.heap[h2.df] = p
C18_Witness == /\ last.kind = "Petacereza" /\ last.out = "ok" /\ steps = 2 /\ fdf = 1
               /\ NRows(heap[fdf]) = TopN
               /\ heap[fdf].idx = <<5, 7, 4, 8, 10, 2, 0, 9, 6, 1>>

\* C19: after a Hipnoseta c that created the derived column, the square of
\* the row's c value stands in at most min(5, row count) rows of it.
C19_SquaresOnSample ==
    \A c \in Names(heap[fdf]) :
        LET t == heap[fdf] IN
        (last.kind = "Hipnoseta" /\ last.out = "ok" /\ steps = 1 /\ HasCol(t, SquareName(c))) =>
           Cardinality({r \in 1..NRows(t) :
                          Column(t, SquareName(c))[r] = Column(t, c)[r] * Column(t, c)[r]})
              <= Min(5, NRows(t))
C19_Witness == /\ last.kind = "Hipnoseta" /\ last.out = "ok" /\ steps = 1
               /\ NRows(heap[fdf]) = 11
               /\ Column(heap[fdf], "x_cuadrado") = <<9, 1, 16, 1, 25, 36, 4, 36, 25, 9, 25>>

\* C20: a statement refused by the lexer or the parser changes nothing: the
\* session's df and loaded flag, every handler's table reference and its
\* content, the transform handler's modified flag and the file handler's
\* state are as before, and the session is at the prompt again.
C20_MalformedChangesNothing ==
    [][(steps' = steps + 1 /\ last'.out = "syntax") =>
          /\ UNCHANGED <<heap, df, archivo_cargado, aa, nombre_archivo, base_cargado,
                         idf, fdf, fmod, edf, wdf, wbdf>>
          /\ pc' = "prompt"]_vars
C20_Witness == /\ AtPrompt /\ last.kind = "Malformed" /\ last.out = "syntax" /\ steps = 2
               /\ archivo_cargado /\ df # None /\ NRows(heap[df]) = 2 /\ fdf = df

\* C21: no statement ends with an exception leaving interpreter.transform:
\* every handler, the transform, capture, chaos and terminal ones included,
\* hands main a value for its failures too.
C21_NoExceptionCrosses == last.out # "exc"
C21_Witness == /\ AtPrompt /\ last.kind = "Jalapeno" /\ last.out = "exc"
               /\ last.err = "ColumnNotFound" /\ steps = 2

\* C22: a Sol statement that succeeds replaces the table wholesale: after it
\* main's df, archivo_actual and every handler's df are one new object
\* holding the table read from the named file, whatever was applied before,
\* and the file handler is marked loaded under the new file's name.
C22_SolReplacesWholesale ==
    [][(steps' = steps + 1 /\ last'.kind = "Sol" /\ last'.out = "ok") =>
          /\ df' # None /\ df' \notin Refs(Cur)
          /\ aa' = df' /\ idf' = df' /\ fdf' = df' /\ edf' = df' /\ wdf' = df' /\ wbdf' = df'
          /\ heap'[df'] = FileTable(last'.who)
          /\ archivo_cargado' /\ base_cargado' /\ nombre_archivo' = last'.who]_vars
C22_Witness == /\ AtPrompt /\ last.kind = "Sol" /\ last.out = "ok" /\ last.who = "x.csv"
               /\ steps = 3 /\ fmod /\ heap[df] = FileTable("x.csv") /\ fdf = df

C24_DrawsDetermined ==
    InRound =>
       \A n \in 0..(MaxTall + 1) :
          ~(/\ ENABLED (ChaosNext /\ NRows(heap'[edf']) = n /\ heap'[edf'].cols = heap[edf].cols)
            /\ ENABLED (ChaosNext /\ (NRows(heap'[edf']) # n \/ heap'[edf'].cols # heap[edf].cols)))
C24_Witness == /\ InRound /\ rounds = 1 /\ last.calls = 1 /\ NRows(heap[edf]) = 3
               /\ heap[edf].cols = <<"col_1001", "col_1000">>

\* C25: a KeyboardInterrupt during Football ends the session: main's loop
\* is left with that statement, and from then on no statement is read and
\* nothing changes.
C25_InterruptEndsSession ==
    [][/\ pc # "exited"
       /\ last'.out = "interrupted" => (last'.kind = "Football" /\ pc' = "exited")]_vars
C25_Witness == /\ pc = "exited" /\ last.kind = "Football" /\ last.out = "interrupted"
               /\ last.iters = 2 /\ steps = 2 /\ steps < MaxSteps
               /\ HasCol(heap[fdf], "x_cuadrado")

\* The statement begins with the word w.
FirstWordIs(c, w) ==
    /\ Len(c) >= Len(w) /\ SubSeq(c, 1, Len(w)) = w
    /\ Len(c) = Len(w) \/ c[Len(w) + 1] \in Blank \cup {"("}

\* C26: keywords come before identifiers: when tokenize returns for a
\* statement whose first word is a word the grammar accepts there, "Rosa"
\* included, the first token is that word under its own kind, not COLUMN.
C26_KeywordsBeforeIdentifier ==
    (last.kind = "tokenize" /\ last.out = "ok") =>
       \A k \in GrammarKeywords :
          FirstWordIs(code, Chars(k[1])) =>
             tokens # <<>> /\ tokens[1] = <<k[2], Chars(k[1])>>
C26_Witness == /\ last.kind = "tokenize" /\ last.out = "ok"
               /\ code = Chars("Rosa") \o Chars(" 3")
               /\ tokens = <<<<"COLUMN", Chars("Rosa")>>, <<"NUMBER", <<"3">>>>>>

\* C27: a transform handler checks before it writes: a call that raises
\* leaves the handler's df, its content and its modified flag as they were,
\* and the checks come in the order column exists, column numeric, and for
\* petacereza table not empty.
C27_ChecksBeforeWrite ==
    \A a \in Actions(heap[fdf]) :
        LET t == heap[fdf]
            h == EvalAction(H0(Cur), a, {})
            missing == ~HasCol(t, a.c1) \/ (a.op = "Maceta" /\ ~HasCol(t, a.c2))
            text == ~IsNumeric(t, a.c1) \/ (a.op = "Maceta" /\ ~IsNumeric(t, a.c2)) IN
        /\ h.exc # "" => (h.heap = heap /\ h.df = fdf /\ h.mod = fmod)
        /\ missing => h.exc = "ColumnNotFound"
        /\ (~missing /\ a.op # "Jalapeno" /\ text) => h.exc = "NonNumeric"
        /\ (~missing /\ a.op = "Petacereza" /\ ~text /\ NRows(t) = 0) => h.exc = "EmptyTable"
        /\ (~missing /\ a.op = "Jalapeno" /\ NCols(t) = 1) => h.exc = "OnlyColumn"
C27_Witness == /\ last.kind = "Maceta" /\ last.out = "exc" /\ last.err = "NonNumeric"
               /\ steps = 2 /\ fmod /\ fdf = 1
               /\ heap[fdf].cols = <<"x", "y", "x_cuadrado">> /\ NRows(heap[fdf]) = 2

\* C28: football's loop ends: with every turn taking its pause at least, it
\* returns, and then ten seconds or more have passed, at least one turn was
\* made and the result is not None; a turn is only begun right after the
\* loop condition was found true.
C28_FootballTerminates ==
    /\ <>(pc = "returned")
    /\ [](pc = "returned" =>
            (count >= 1 /\ result # None /\ clock - start_time >= TenSeconds))
    /\ [][/\ pc' = "body" => (pc = "while" /\ clock - start_time < TenSeconds)
          /\ count' # count => (pc = "body" /\ count' = count + 1)]_vars
C28_Witness == /\ pc = "returned" /\ count = 20 /\ result = action_tree
               /\ clock - start_time = TenSeconds /\ last.iters = 20

\* C29: between statements the file handler is consistent: its
\* archivo_cargado is true exactly when its archivo_actual is a table, so
\* after melonpulta_gelida archivo_actual is None until a Sol succeeds.
C29_LoadedIffTable == AtPrompt => (base_cargado <=> aa # None)
C29_Witness == /\ AtPrompt /\ last.kind = "Melonpulta" /\ steps = 3 /\ ~base_cargado
               /\ nombre_archivo = "" /\ aa # None /\ HasCol(heap[aa], "x_cuadrado")

\* C30: Zombidito (a1 a2) is a1 and then a2 typed as two statements: on a
\* loaded table, when the two actions succeed either way, main's df holds
\* the same table after the one statement as after the two.
C30_ZombiditoIsSequence ==
    (AtPrompt /\ Gate /\ df # None) =>
       \A a1 \in Actions(heap[fdf]) :
          LET h1 == Evaluate(Cur, a1, NoAct)
              s1 == MainSync(After(Cur, h1)) IN
          \A a2 \in Actions(h1.heap[h1.df]) :
             LET hz == Evaluate(Cur, a1, a2)
                 sz == MainSync(After(Cur, hz))
                 h2 == Evaluate(s1, a2, NoAct)
                 s2 == MainSync(After(s1, h2)) IN
             (h1.exc = "" /\ hz.exc = "" /\ h2.exc = "") =>
                Equals(sz.heap[sz.df], s2.heap[s2.df])
C30_Witness == /\ AtPrompt /\ last.kind = "Zombidito" /\ last.out = "ok" /\ last.calls = 2
               /\ steps = 2 /\ repl.has /\ repl.t.cols = <<"y", "y_mas_y">>
               /\ heap[df].cols = <<"x", "y">>
====
